---- MODULE Spec2Model ----
(***************************************************************************)
(* flask_navigation/item.py: Item and ItemCollection.                      *)
(*                                                                         *)
(* An ItemCollection keeps a list of items (_items) and a dictionary from  *)
(* item.ident to item (_items_mapping).  The model has one action per      *)
(* public operation of the collection; every action records in `last` the  *)
(* call, its outcome (value returned or exception raised) and the          *)
(* collection as it was when the call was made.                            *)
(*                                                                         *)
(* The properties of an Item read two things from outside: the current     *)
(* request of Flask (`request`) and, when args is a callable, the mapping   *)
(* that callable returns now (`supplied`).  Every read of a property is     *)
(* recorded in `read`, the read before it in `prev`.                        *)
(*                                                                         *)
(* A Python dict is modelled as the sequence of its <<key, value>> pairs   *)
(* in insertion order, with pairwise distinct keys.  Keys are the numbers  *)
(* 1, 2 (standing for "a", "b") so that sorting by key is computable.      *)
(***************************************************************************)
EXTENDS Integers, Sequences, FiniteSets, TLC

VARIABLES items, items_mapping, last, request, supplied, read, prev

vars == <<items, items_mapping, last, request, supplied, read, prev>>

\* ------------------------------------------------------------------ bounds
\* longest list of items the model grows a collection to
MaxLen == 3
\* longest iterable handed to extend() or to the constructor
MaxExtend == 2

\* ------------------------------------------------------------------ values
\* Python's None
None == "None"

\* self._args: None, a mapping, or a function without arguments
NoArgs == [tag |-> "none", d |-> <<>>]
DictArgs(d) == [tag |-> "dict", d |-> d]
CallableArgs == [tag |-> "callable", d |-> <<>>]

\* Item.__init__
Item(label, endpoint, args_, url_) ==
  [label |-> label, endpoint |-> endpoint, args |-> args_, url |-> url_]

\* the items callers build; ItemC and ItemD are distinct objects whose args
\* hold the same pairs in different insertion order
ItemA == Item("A", "x", NoArgs, None)
ItemC == Item("C", "x", DictArgs(<< <<1, 1>>, <<2, 2>> >>), None)
ItemD == Item("D", "x", DictArgs(<< <<2, 2>>, <<1, 1>> >>), None)
ItemE == Item("E", "y", NoArgs, None)
Items == {ItemA, ItemC, ItemD, ItemE}

\* the value of `ret` when a call returns nothing or raises
NoItem == Item(None, None, NoArgs, None)

\* ------------------------------------------------------------ freeze_dict
\* insert one pair into a sequence of pairs sorted by key
RECURSIVE SortedInsert(_, _)
SortedInsert(pair, sorted) ==
  IF sorted = <<>> THEN <<pair>>
  ELSE IF pair[1] < Head(sorted)[1] THEN <<pair>> \o sorted
  ELSE <<Head(sorted)>> \o SortedInsert(pair, Tail(sorted))

\* utils.freeze_dict: the tuple of the dict's pairs, sorted by key
RECURSIVE freeze_dict(_)
freeze_dict(d) ==
  IF d = <<>> THEN <<>>
  ELSE SortedInsert(d[Len(d)], freeze_dict(SubSeq(d, 1, Len(d) - 1)))

\* ------------------------------------------------------------------- Item
\* Item.args as it would be if the result of the callable were kept: the
\* mapping of the last read of the same item is returned again
args_memoized(item) ==
  IF item.args.tag = "none" THEN <<>>
  ELSE IF item.args.tag = "callable"
  THEN (IF read.item = item THEN read.args ELSE supplied)
  ELSE item.args.d

\* Item.args
args(item) ==
  IF item.args.tag = "none" THEN <<>>
  ELSE IF item.args.tag = "callable" THEN supplied
  ELSE item.args.d

\* Item.ident as it would be if the args were not frozen: the pairs stay in
\* their insertion order
ident_unfrozen(item) == <<item.endpoint, args(item)>>

\* Item.ident
ident(item) == <<item.endpoint, freeze_dict(args(item))>>

\* the number of calls of the callable that one evaluation of self.args makes
args_calls(item) == IF item.args.tag = "callable" THEN 1 ELSE 0

\* the key-value pairs of a dict
Pairs(d) == {d[i] : i \in 1..Len(d)}

\* a == b of request.view_args (None or a dict) and a dict: dicts are equal
\* when they hold the same pairs, in whatever order
ViewArgsEq(view_args, d) ==
  view_args.tag = "dict" /\ Pairs(view_args.d) = Pairs(d)

\* a url: the literal text of Item._url, or what flask.url_for built from an
\* endpoint and keyword arguments
LiteralUrl(text) == [text |-> text, endpoint |-> None, args |-> {}]
BuiltUrl(endpoint, kwargs) ==
  [text |-> "url_for", endpoint |-> endpoint, args |-> Pairs(kwargs)]
NoUrl == LiteralUrl(None)

\* the endpoints the application has routes for
Routes == {"x", "y"}

\* flask.url_for(endpoint, **kwargs): builds the url, or raises BuildError
\* when the endpoint has no route
url_for(endpoint, kwargs) ==
  IF endpoint \in Routes
  THEN [err |-> "ok", url |-> BuiltUrl(endpoint, kwargs)]
  ELSE [err |-> "BuildError", url |-> NoUrl]

\* Item.url as it would be if it built the url before looking at self._url
url_built_first(item) ==
  LET built == url_for(item.endpoint, args(item))
  IN IF built.err # "ok" THEN built
     ELSE IF item.url = None THEN built
     ELSE [err |-> "ok", url |-> LiteralUrl(item.url)]

\* Item.url
url(item) ==
  IF item.url = None THEN url_for(item.endpoint, args(item))
  ELSE [err |-> "ok", url |-> LiteralUrl(item.url)]

\* the calls of the callable and of url_for that one read of Item.url makes
url_calls(item) == IF item.url = None THEN args_calls(item) ELSE 0
url_resolves(item) == IF item.url = None THEN 1 ELSE 0

\* Item.is_active as it would be if it did not compare the args
is_active_endpoint_only(item) ==
  LET is_internal == item.url = None
      has_same_endpoint == request.endpoint = item.endpoint
  IN is_internal /\ has_same_endpoint

\* Item.is_active as it would be if the result were kept: the result of the
\* last read of the same item is returned again
is_active_memoized(item) ==
  IF read.prop = "is_active" /\ read.item = item THEN read.active
  ELSE /\ item.url = None
       /\ request.endpoint = item.endpoint
       /\ ViewArgsEq(request.view_args, args(item))

\* Item.is_active
is_active(item) ==
  LET is_internal == item.url = None
      has_same_endpoint == request.endpoint = item.endpoint
      has_same_args == ViewArgsEq(request.view_args, args(item))
  IN is_internal /\ has_same_endpoint /\ has_same_args

\* --------------------------------------------------------- list and dict
\* list[index] as it would be with the index clamped into the list the way
\* list.insert clamps it: an index beyond the end names the last item
ListPosClamped(l, index) ==
  IF l = <<>> THEN 0
  ELSE IF index >= Len(l) THEN Len(l)
  ELSE IF index >= 0 THEN index + 1
  ELSE IF -Len(l) <= index THEN Len(l) + index + 1
  ELSE 0

\* list[index]: the 1-based position of a Python index, 0 when out of range
ListPos(l, index) ==
  IF 0 <= index /\ index < Len(l) THEN index + 1
  ELSE IF index < 0 /\ -Len(l) <= index THEN Len(l) + index + 1
  ELSE 0

\* list.insert as it would be if it put the item after position index
ListInsertAfter(l, index, item) ==
  LET n == Len(l)
      j == IF index < 0 THEN (IF index + n < 0 THEN 0 ELSE index + n)
           ELSE (IF index > n THEN n ELSE index)
      i == IF j < n THEN j + 1 ELSE n
  IN SubSeq(l, 1, i) \o <<item>> \o SubSeq(l, i + 1, n)

\* list.insert(index, item): the index is clamped into 0..len
ListInsert(l, index, item) ==
  LET n == Len(l)
      i == IF index < 0 THEN (IF index + n < 0 THEN 0 ELSE index + n)
           ELSE (IF index > n THEN n ELSE index)
  IN SubSeq(l, 1, i) \o <<item>> \o SubSeq(l, i + 1, n)

\* del list[pos], pos 1-based and in range
ListDel(l, pos) == SubSeq(l, 1, pos - 1) \o SubSeq(l, pos + 1, Len(l))

\* dict[key] = value
DictSet(m, key, value) ==
  [k \in DOMAIN m \cup {key} |-> IF k = key THEN value ELSE m[k]]

\* del dict[key], key present
DictDel(m, key) == [k \in DOMAIN m \ {key} |-> m[k]]

\* {}
EmptyDict == [k \in {} |-> NoItem]

\* --------------------------------------------------------- ItemCollection
\* the two fields of a collection
Coll(l, m) == [items |-> l, items_mapping |-> m]

\* the outcome of a call: the collection after it, the exception raised
\* ("ok" when none) and the value returned
Outcome(c, err, ret) == [c |-> c, err |-> err, ret |-> ret]

\* the index argument of [] : an int, a bare endpoint, or a tuple
IntIndex(i) == [kind |-> "int", i |-> i, endpoint |-> None, args |-> <<>>]
StrIndex(e) == [kind |-> "str", i |-> 0, endpoint |-> e, args |-> <<>>]
TupleIndex(e, a) == [kind |-> "tuple", i |-> 0, endpoint |-> e, args |-> a]
NoIndex == [kind |-> None, i |-> 0, endpoint |-> None, args |-> <<>>]

\* __getitem__ as it would be if a tuple index lost its args
getitem_endpoint_only(c, index) ==
  IF index.kind = "int"
  THEN LET pos == ListPos(c.items, index.i)
       IN IF pos = 0 THEN Outcome(c, "IndexError", NoItem)
          ELSE Outcome(c, "ok", c.items[pos])
  ELSE LET id == <<index.endpoint, freeze_dict(<<>>)>>
       IN IF id \in DOMAIN c.items_mapping
          THEN Outcome(c, "ok", c.items_mapping[id])
          ELSE Outcome(c, "KeyError", NoItem)

\* ItemCollection.__getitem__
getitem(c, index) ==
  IF index.kind = "int"
  THEN LET pos == ListPos(c.items, index.i)
       IN IF pos = 0 THEN Outcome(c, "IndexError", NoItem)
          ELSE Outcome(c, "ok", c.items[pos])
  ELSE LET endpoint == index.endpoint
           a == IF index.kind = "tuple" THEN index.args ELSE <<>>
           id == <<endpoint, freeze_dict(a)>>
       IN IF id \in DOMAIN c.items_mapping
          THEN Outcome(c, "ok", c.items_mapping[id])
          ELSE Outcome(c, "KeyError", NoItem)

\* __setitem__ as it would be without its second line: the index keeps the
\* entry of the replaced item
setitem_keeps_old(c, index, item) ==
  LET pos == ListPos(c.items, index)
  IN IF pos = 0 THEN Outcome(c, "IndexError", NoItem)
     ELSE Outcome(Coll([c.items EXCEPT ![pos] = item],
                       DictSet(c.items_mapping, ident(item), item)),
                  "ok", NoItem)

\* ItemCollection.__setitem__, index an int
setitem(c, index, item) ==
  LET pos == ListPos(c.items, index)
  IN IF pos = 0 THEN Outcome(c, "IndexError", NoItem)
     ELSE LET old_item == c.items[pos]
          IN IF ident(old_item) \notin DOMAIN c.items_mapping
             THEN Outcome(c, "KeyError", NoItem)
             ELSE Outcome(
                    Coll([c.items EXCEPT ![pos] = item],
                         DictSet(DictDel(c.items_mapping, ident(old_item)),
                                 ident(item), item)),
                    "ok", NoItem)

\* __delitem__ as it would be without its last line: the index keeps the
\* entry of the deleted item
delitem_list_only(c, index) ==
  LET got == getitem(c, index)
  IN IF got.err # "ok" THEN Outcome(c, got.err, NoItem)
     ELSE IF index.kind # "int" THEN Outcome(c, "TypeError", NoItem)
     ELSE Outcome(Coll(ListDel(c.items, ListPos(c.items, index.i)),
                       c.items_mapping),
                  "ok", NoItem)

\* __delitem__ as it would be if it read the item after deleting from the
\* list: the entry of the item that moved into the position is deleted
delitem_late_read(c, index) ==
  LET got == getitem(c, index)
  IN IF got.err # "ok" THEN Outcome(c, got.err, NoItem)
     ELSE IF index.kind # "int" THEN Outcome(c, "TypeError", NoItem)
     ELSE LET pos == ListPos(c.items, index.i)
              l == ListDel(c.items, pos)
          IN IF pos > Len(l)
             THEN Outcome(Coll(l, c.items_mapping), "IndexError", NoItem)
             ELSE IF ident(l[pos]) \notin DOMAIN c.items_mapping
             THEN Outcome(Coll(l, c.items_mapping), "KeyError", NoItem)
             ELSE Outcome(Coll(l, DictDel(c.items_mapping, ident(l[pos]))),
                          "ok", NoItem)

\* ItemCollection.__delitem__
delitem(c, index) ==
  LET got == getitem(c, index)
  IN IF got.err # "ok" THEN Outcome(c, got.err, NoItem)
     ELSE IF index.kind # "int" THEN Outcome(c, "TypeError", NoItem)
     ELSE LET item == got.ret
              l == ListDel(c.items, ListPos(c.items, index.i))
          IN IF ident(item) \notin DOMAIN c.items_mapping
             THEN Outcome(Coll(l, c.items_mapping), "KeyError", NoItem)
             ELSE Outcome(Coll(l, DictDel(c.items_mapping, ident(item))),
                          "ok", NoItem)

\* insert as it would be if the index kept the entry it already holds
\* (setdefault instead of assignment)
insert_setdefault(c, index, item) ==
  Outcome(Coll(ListInsert(c.items, index, item),
               IF ident(item) \in DOMAIN c.items_mapping
               THEN c.items_mapping
               ELSE DictSet(c.items_mapping, ident(item), item)),
          "ok", NoItem)

\* insert as it would be without its last line: the item is not indexed
insert_list_only(c, index, item) ==
  Outcome(Coll(ListInsert(c.items, index, item), c.items_mapping),
          "ok", NoItem)

\* insert as it would be if it checked the index the way list[index] does
insert_checked(c, index, item) ==
  IF index > Len(c.items) \/ index < -Len(c.items)
  THEN Outcome(c, "IndexError", NoItem)
  ELSE Outcome(Coll(ListInsert(c.items, index, item),
                    DictSet(c.items_mapping, ident(item), item)),
               "ok", NoItem)

\* ItemCollection.insert, index an int
insert(c, index, item) ==
  Outcome(Coll(ListInsert(c.items, index, item),
               DictSet(c.items_mapping, ident(item), item)),
          "ok", NoItem)

\* MutableSequence.append: self.insert(len(self), value)
append(c, item) == insert(c, Len(c.items), item)

\* MutableSequence.extend: for v in values: self.append(v)
RECURSIVE extend(_, _)
extend(c, values) ==
  IF values = <<>> THEN Outcome(c, "ok", NoItem)
  ELSE extend(append(c, Head(values)).c, Tail(values))

\* ItemCollection.__len__
length(c) == Len(c.items)

\* ------------------------------------------------------------- the inputs
\* int indexes for a list: every in-range index and one beyond each end
IntIndexes(l) == {IntIndex(i) : i \in -(Len(l) + 1) .. (Len(l) + 1)}
\* args mappings handed to a lookup by identity
LookupArgs == {<<>>, << <<1, 1>>, <<2, 2>> >>, << <<2, 2>>, <<1, 1>> >>}
\* identity indexes: a bare endpoint, or a tuple (endpoint, args)
KeyIndexes == {StrIndex(e) : e \in {"x", "y", "z"}}
              \cup {TupleIndex("x", a) : a \in LookupArgs}
Indexes(l) == IntIndexes(l) \cup KeyIndexes
\* iterables of at most MaxExtend items
Iterables == UNION {[1..n -> Items] : n \in 0..MaxExtend}

\* the identities of the items of a list
Idents(l) == {ident(l[i]) : i \in 1..Len(l)}
\* no two positions of a list hold the same identity
NoDup(l) == \A i, j \in 1..Len(l) : ident(l[i]) = ident(l[j]) => i = j

\* the collection the next call is made on
self == Coll(items, items_mapping)

\* the call made, its outcome and the collection it was made on
Call(op, index, item, values, before, out) ==
  [op |-> op, index |-> index, item |-> item, values |-> values,
   err |-> out.err, ret |-> out.ret, before |-> before]

\* a call on self: the fields become what the call left
Do(op, index, item, values, out) ==
  /\ items' = out.c.items
  /\ items_mapping' = out.c.items_mapping
  /\ last' = Call(op, index, item, values, self, out)
  /\ UNCHANGED <<request, supplied, read, prev>>

\* ------------------------------------------------------ reads of an Item
\* what one read of a property gave: the value (in the field of its type),
\* the exception raised, the mapping self.args returned, and how often the
\* callable and url_for were called
Got(active, url_, args_, ident_, err, calls, resolves) ==
  [active |-> active, url |-> url_, args |-> args_, ident |-> ident_,
   err |-> err, calls |-> calls, resolves |-> resolves]

NoIdent == <<None, <<>>>>

\* item.args
get_args(item) ==
  Got(FALSE, NoUrl, args(item), NoIdent, "ok", args_calls(item), 0)

\* item.url
get_url(item) ==
  Got(FALSE, url(item).url,
      IF item.url = None THEN args(item) ELSE <<>>,
      NoIdent, url(item).err, url_calls(item), url_resolves(item))

\* item.is_active
get_is_active(item) ==
  Got(is_active(item), NoUrl, args(item), NoIdent, "ok", args_calls(item), 0)

\* item.ident
get_ident(item) ==
  Got(FALSE, NoUrl, args(item), ident(item), "ok", args_calls(item), 0)

\* the read of a property, what it gave, and the request and the result of
\* the callable at the time
Reading(prop, item, got) ==
  [prop |-> prop, item |-> item,
   active |-> got.active, url |-> got.url, args |-> got.args,
   ident |-> got.ident, err |-> got.err,
   calls |-> got.calls, resolves |-> got.resolves,
   request |-> request, supplied |-> supplied]

\* no request is being handled: request.endpoint and request.view_args are
\* None
NoRequest == [endpoint |-> None, view_args |-> NoArgs]

\* no property was read yet
NoRead ==
  [prop |-> None, item |-> NoItem,
   active |-> FALSE, url |-> NoUrl, args |-> <<>>, ident |-> NoIdent,
   err |-> "ok", calls |-> 0, resolves |-> 0,
   request |-> NoRequest, supplied |-> <<>>]

\* ---------------------------------------------------------------- actions
\* ItemCollection.__init__(iterable)
New(iterable) ==
  LET empty == Coll(<<>>, EmptyDict)
      out == extend(empty, iterable)
  IN /\ items = out.c.items
     /\ items_mapping = out.c.items_mapping
     /\ last = Call("init", NoIndex, NoItem, iterable, empty, out)

\* a collection used outside any request, with no property ever read
Outside ==
  /\ request = NoRequest
  /\ supplied = <<>>
  /\ read = NoRead
  /\ prev = NoRead

Init == Outside /\ \E iterable \in Iterables : New(iterable)

\* c[index]
GetItem(index) == Do("getitem", index, NoItem, <<>>, getitem(self, index))

\* c[index] = item
SetItem(index, item) ==
  Do("setitem", index, item, <<>>, setitem(self, index.i, item))

\* del c[index]
DelItem(index) == Do("delitem", index, NoItem, <<>>, delitem(self, index))

\* c.insert(index, item)
InsertItem(index, item) ==
  /\ Len(items) < MaxLen
  /\ Do("insert", index, item, <<>>, insert(self, index.i, item))

\* c.append(item)
AppendItem(item) ==
  /\ Len(items) < MaxLen
  /\ Do("append", NoIndex, item, <<>>, append(self, item))

\* c.extend(values)
ExtendItems(values) ==
  /\ Len(items) + Len(values) <= MaxLen
  /\ Do("extend", NoIndex, NoItem, values, extend(self, values))

Next ==
  \/ \E index \in Indexes(items) : GetItem(index)
  \/ \E index \in IntIndexes(items), item \in Items : SetItem(index, item)
  \/ \E index \in Indexes(items) : DelItem(index)
  \/ \E index \in IntIndexes(items), item \in Items : InsertItem(index, item)
  \/ \E item \in Items : AppendItem(item)
  \/ \E values \in Iterables : ExtendItems(values)

Spec == Init /\ [][Next]_vars

\* ------------------------------------------------- callers keeping idents unique
\* item's identity is held by no item of the list
Fresh(l, item) == ident(item) \notin Idents(l)

\* the callers never hand in an item whose identity another item of the
\* sequence holds
InitUnique ==
  Outside /\ \E iterable \in Iterables : NoDup(iterable) /\ New(iterable)

NextUnique ==
  \/ \E index \in Indexes(items) : GetItem(index)
  \/ \E index \in IntIndexes(items), item \in Items :
       /\ LET pos == ListPos(items, index.i)
          IN pos # 0 => Fresh(ListDel(items, pos), item)
       /\ SetItem(index, item)
  \/ \E index \in Indexes(items) : DelItem(index)
  \/ \E index \in IntIndexes(items), item \in Items :
       Fresh(items, item) /\ InsertItem(index, item)
  \/ \E item \in Items : Fresh(items, item) /\ AppendItem(item)
  \/ \E values \in Iterables :
       NoDup(items \o values) /\ ExtendItems(values)

SpecUnique == InitUnique /\ [][NextUnique]_vars

\* ------------------------------------------------- items read during requests
\* items whose properties are read
ItemU == Item("U", "x", NoArgs, "/literal")
ItemF == Item("F", "x", CallableArgs, None)
ItemG == Item("G", "y", CallableArgs, "/literal")
ItemZ == Item("Z", "z", NoArgs, None)
ItemW == Item("W", "z", NoArgs, "/literal")

\* the requests Flask may be handling: none, or one matched to an endpoint
\* with its view_args
Requests ==
  {NoRequest, [endpoint |-> None, view_args |-> DictArgs(<<>>)]}
  \cup {[endpoint |-> e, view_args |-> DictArgs(a)] :
          e \in Routes, a \in {<<>>, << <<2, 2>>, <<1, 1>> >>}}

\* the mappings the callable may return
Supplies == {<<>>, << <<1, 1>>, <<2, 2>> >>, << <<2, 2>>, <<1, 1>> >>}

\* the collections built before the reads
BuiltFrom == {<<>>, <<ItemC>>, <<ItemD, ItemA>>, <<ItemE, ItemC>>}

\* a read of a property of an item
Read(prop, item, got) ==
  /\ read' = Reading(prop, item, got)
  /\ prev' = read
  /\ UNCHANGED <<items, items_mapping, last, request, supplied>>

ReadArgs(item) == Read("args", item, get_args(item))
ReadUrl(item) == Read("url", item, get_url(item))
ReadIsActive(item) == Read("is_active", item, get_is_active(item))
ReadIdent(item) == Read("ident", item, get_ident(item))

\* Flask goes on to another request (or to none)
SetRequest(r) ==
  /\ r # request
  /\ request' = r
  /\ UNCHANGED <<items, items_mapping, last, supplied, read, prev>>

\* the callable of the items comes to return another mapping
SetSupplied(d) ==
  /\ d # supplied
  /\ supplied' = d
  /\ UNCHANGED <<items, items_mapping, last, request, read, prev>>

\* reads of url and is_active while the request changes
RequestItems == {ItemA, ItemC, ItemU, ItemF, ItemZ, ItemW}

InitRequest ==
  /\ request \in Requests
  /\ supplied = << <<1, 1>>, <<2, 2>> >>
  /\ read = NoRead
  /\ prev = NoRead
  /\ \E iterable \in BuiltFrom : New(iterable)

NextRequest ==
  \/ \E item \in RequestItems : ReadIsActive(item)
  \/ \E item \in RequestItems : ReadUrl(item)
  \/ \E r \in Requests : SetRequest(r)

SpecRequest == InitRequest /\ [][NextRequest]_vars

\* reads of all four properties while the result of the callable changes
ArgsItems == {ItemA, ItemC, ItemD, ItemE, ItemF, ItemG}

InitArgs ==
  /\ request = [endpoint |-> "x",
                view_args |-> DictArgs(<< <<1, 1>>, <<2, 2>> >>)]
  /\ supplied \in Supplies
  /\ read = NoRead
  /\ prev = NoRead
  /\ \E iterable \in BuiltFrom : New(iterable)

NextArgs ==
  \/ \E item \in ArgsItems : ReadArgs(item)
  \/ \E item \in ArgsItems : ReadUrl(item)
  \/ \E item \in ArgsItems : ReadIsActive(item)
  \/ \E item \in ArgsItems : ReadIdent(item)
  \/ \E d \in Supplies : SetSupplied(d)

SpecArgs == InitArgs /\ [][NextArgs]_vars

\* ------------------------------------------------------------- properties
\* the collection the last call was made on
before == last.before

\* c[item.endpoint, item.args]: the lookup of an item by its own identity
ByIdent(c, item) == getitem(c, TupleIndex(item.endpoint, args(item)))

\* the last call was made with an int index that is in range of the list it
\* was made on
InRange == /\ last.index.kind = "int"
           /\ -Len(before.items) <= last.index.i
           /\ last.index.i < Len(before.items)

\* the 1-based position an in-range int index of the last call names
Pos == IF last.index.i >= 0 THEN last.index.i + 1
       ELSE Len(before.items) + last.index.i + 1

\* the last call left the collection as it was
Untouched == self = before

\* C1: in every reachable state the key set of the identity index equals the
\* set of identities of the items held in the sequence.
C1_KeySetIsIdentSet == DOMAIN items_mapping = Idents(items)

\* C2: a call that fails with an error leaves the sequence and the identity
\* index exactly as they were before the call.
C2_NoPartialSuccess == last.err # "ok" => Untouched

\* C3: when callers never hand in an identity another item of the sequence
\* holds, the identity index is a bijection with the sequence: no two items
\* share an identity, the index has length() entries, and the lookup by the
\* identity of the item at any position returns that item.
C3_IndexIsBijection ==
  /\ NoDup(items)
  /\ Cardinality(DOMAIN items_mapping) = length(self)
  /\ \A i \in 0..(length(self) - 1) :
       LET at == getitem(self, IntIndex(i))
           got == ByIdent(self, at.ret)
       IN at.err = "ok" /\ got.err = "ok" /\ got.ret = at.ret

\* a replacement by an item of another identity, after which the collection
\* holds two items
C3_Witness ==
  /\ last.op = "setitem" /\ last.err = "ok"
  /\ Len(items) = 2
  /\ ident(last.item) # ident(before.items[Pos])

\* C4: inserting an item whose identity the collection already holds
\* succeeds; the lookup by that identity then returns the new item, every old
\* item is still in the sequence (at its position, or one to the right of
\* it), length() has grown by one and the index has fewer entries than the
\* sequence has items.
C4_DuplicateInsert ==
  (last.op = "insert" /\ ident(last.item) \in Idents(before.items)) =>
    /\ last.err = "ok"
    /\ ByIdent(self, last.item).err = "ok"
    /\ ByIdent(self, last.item).ret = last.item
    /\ Len(items) = Len(before.items) + 1
    /\ \E pos \in 1..Len(items) :
         /\ items[pos] = last.item
         /\ \A p \in 1..Len(before.items) :
              items[IF p < pos THEN p ELSE p + 1] = before.items[p]
    /\ Cardinality(DOMAIN items_mapping) < Len(items)

C4_Witness ==
  /\ last.op = "insert"
  /\ ident(last.item) \in Idents(before.items)
  /\ last.item \notin {before.items[p] : p \in 1..Len(before.items)}
  /\ Len(items) = 3

\* C5: on a collection without duplicate identities, del c[i] with i in range
\* removes exactly the item at i from both views: length() decreases by one,
\* the items before i keep their positions, the items after i move one to the
\* left, the lookup by the deleted item's identity fails with KeyError and
\* every other lookup by identity returns what it returned before.
C5_DeleteFromBothViews ==
  (last.op = "delitem" /\ InRange /\ NoDup(before.items)) =>
    /\ last.err = "ok"
    /\ Len(items) = Len(before.items) - 1
    /\ \A p \in 1..Len(before.items) :
         /\ p < Pos => items[p] = before.items[p]
         /\ p > Pos => items[p - 1] = before.items[p]
    /\ ByIdent(self, before.items[Pos]).err = "KeyError"
    /\ \A k \in KeyIndexes :
         getitem(before, k) # ByIdent(before, before.items[Pos])
           => getitem(self, k).ret = getitem(before, k).ret

\* C6: on a collection without duplicate identities, c[i] = new with i in
\* range and new's identity held at no other position leaves length() and
\* every other position unchanged, puts new at i, makes the lookup by new's
\* identity return new, and makes the lookup by the replaced item's identity
\* fail with KeyError unless it is new's identity.
C6_SetReplacesInBothViews ==
  (/\ last.op = "setitem" /\ InRange /\ NoDup(before.items)
   /\ Fresh(ListDel(before.items, Pos), last.item)) =>
    /\ last.err = "ok"
    /\ Len(items) = Len(before.items)
    /\ \A p \in 1..Len(before.items) : p # Pos => items[p] = before.items[p]
    /\ items[Pos] = last.item
    /\ ByIdent(self, last.item).err = "ok"
    /\ ByIdent(self, last.item).ret = last.item
    /\ ident(before.items[Pos]) # ident(last.item)
         => ByIdent(self, before.items[Pos]).err = "KeyError"

\* C7: c.insert(index, item) with 0 <= index <= length() puts item at
\* position index, leaves the items below index where they were, moves every
\* item at a position p >= index to p + 1, increases length() by one and
\* makes the lookup by item's identity return item.
C7_InsertAtIndex ==
  (last.op = "insert" /\ 0 <= last.index.i
   /\ last.index.i <= Len(before.items)) =>
    /\ last.err = "ok"
    /\ Len(items) = Len(before.items) + 1
    /\ items[last.index.i + 1] = last.item
    /\ \A p \in 1..Len(before.items) :
         /\ p <= last.index.i => items[p] = before.items[p]
         /\ p > last.index.i => items[p + 1] = before.items[p]
    /\ ByIdent(self, last.item).err = "ok"
    /\ ByIdent(self, last.item).ret = last.item

C7_Witness ==
  /\ last.op = "insert" /\ last.index.i = 1
  /\ Len(before.items) = 2

\* C8: c[i], c[i] = item and del c[i] with an int i >= length() fail with
\* IndexError and leave the sequence and the identity index unchanged.
C8_IndexBeyondBounds ==
  (/\ last.op \in {"getitem", "setitem", "delitem"}
   /\ last.index.kind = "int"
   /\ last.index.i >= Len(before.items)) =>
    last.err = "IndexError" /\ Untouched

C8_Witness ==
  /\ last.op = "delitem" /\ last.index.kind = "int"
  /\ last.index.i = Len(before.items)
  /\ Len(items) = 2

\* the key a lookup by identity asks the index for
LookupKey(index) ==
  <<index.endpoint,
    freeze_dict(IF index.kind = "tuple" THEN index.args ELSE <<>>)>>

\* C9: a lookup by identity returns the item the index holds under
\* (endpoint, normalize(args)) and fails with KeyError exactly when the index
\* has no such entry; a lookup by a bare endpoint is the lookup with an empty
\* args mapping; the lookup changes neither the sequence nor the index.
C9_LookupByIdentity ==
  /\ (last.op = "getitem" /\ last.index.kind # "int") =>
       /\ Untouched
       /\ LookupKey(last.index) \in DOMAIN items_mapping
            => last.err = "ok"
               /\ last.ret = items_mapping[LookupKey(last.index)]
       /\ LookupKey(last.index) \notin DOMAIN items_mapping
            => last.err = "KeyError"
  /\ \A e \in {"x", "y", "z"} :
       getitem(self, StrIndex(e)) = getitem(self, TupleIndex(e, <<>>))

C9_Witness ==
  /\ last.op = "getitem" /\ last.index.kind = "tuple"
  /\ last.index.args = << <<2, 2>>, <<1, 1>> >>
  /\ last.err = "ok" /\ last.ret = ItemC

\* C10: append puts the item at the tail; extend and the constructor add the
\* given items at the tail in their order; when the identities of the added
\* items are pairwise distinct, each of them is found by its identity.
C10_AppendExtend ==
  /\ last.op = "append" =>
       /\ last.err = "ok"
       /\ Len(items) = Len(before.items) + 1
       /\ items[Len(items)] = last.item
       /\ SubSeq(items, 1, Len(before.items)) = before.items
       /\ ByIdent(self, last.item).ret = last.item
  /\ last.op \in {"extend", "init"} =>
       /\ last.err = "ok"
       /\ (last.op = "init" => before.items = <<>>)
       /\ items = before.items \o last.values
       /\ NoDup(last.values) =>
            \A p \in 1..Len(last.values) :
              /\ ByIdent(self, last.values[p]).err = "ok"
              /\ ByIdent(self, last.values[p]).ret = last.values[p]

C10_Witness ==
  /\ last.op = "extend" /\ Len(last.values) = 2 /\ Len(before.items) = 1
  /\ NoDup(last.values)
  /\ ident(last.values[1]) \in Idents(before.items)

\* C15: on a collection without duplicate identities, an insert, a set or a
\* delete that adds, replaces and removes only items whose identity differs
\* from k leaves the lookup by k as it was, for every identity k an item of
\* the collection holds.
C15_OtherIdentitiesKeepEntry ==
  (/\ last.op \in {"insert", "setitem", "delitem"}
   /\ last.index.kind = "int"
   /\ NoDup(before.items)) =>
    \A p \in 1..Len(before.items) :
      LET held == before.items[p]
          k == ident(held)
          added == IF last.op = "delitem" THEN {} ELSE {ident(last.item)}
          removed == IF last.op # "insert" /\ InRange
                     THEN {ident(before.items[Pos])} ELSE {}
      IN k \notin added \cup removed =>
           /\ ByIdent(self, held).err = ByIdent(before, held).err
           /\ ByIdent(self, held).ret = ByIdent(before, held).ret

\* an insert at the head moved the item held under k one position to the
\* right
C15_Witness ==
  /\ last.op = "insert" /\ last.index.i = 0
  /\ Len(before.items) = 2 /\ NoDup(before.items)
  /\ ident(last.item) \notin Idents(before.items)
  /\ ByIdent(self, before.items[1]).ret = before.items[1]
  /\ items[2] = before.items[1]

\* C17: every entry of the identity index maps its key to an item that is in
\* the sequence and whose own identity is the key, so a lookup by identity
\* never returns an item that was removed from the sequence.
C17_IndexEntriesAreLive ==
  /\ \A k \in DOMAIN items_mapping :
       /\ \E p \in 1..Len(items) : items[p] = items_mapping[k]
       /\ ident(items_mapping[k]) = k
  /\ (last.op = "getitem" /\ last.index.kind # "int" /\ last.err = "ok") =>
       \E p \in 1..Len(items) : items[p] = last.ret

\* a delete that failed half way, on a collection that held a duplicate
\* identity before
C17_Witness ==
  /\ last.op = "delitem" /\ last.err = "KeyError" /\ last.index.kind = "int"
  /\ items # before.items
  /\ items_mapping # EmptyDict

\* C18: insert never fails on the index: for every int index it succeeds,
\* length() grows by one and the item is in the index; an index above
\* length() puts the item at the tail, an index below -length() at the head.
C18_InsertAnyIndex ==
  last.op = "insert" =>
    /\ last.err = "ok"
    /\ Len(items) = Len(before.items) + 1
    /\ ident(last.item) \in DOMAIN items_mapping
    /\ items_mapping[ident(last.item)] = last.item
    /\ last.index.i > Len(before.items) =>
         items = before.items \o <<last.item>>
    /\ last.index.i < -Len(before.items) =>
         items = <<last.item>> \o before.items

C18_Witness ==
  /\ last.op = "insert"
  /\ last.index.i < -Len(before.items)
  /\ Len(before.items) = 2
  /\ items[1] = last.item

\* two dicts hold the same key-value pairs
SamePairs(a, b) ==
  /\ \A i \in DOMAIN a : \E j \in DOMAIN b : a[i] = b[j]
  /\ \A j \in DOMAIN b : \E i \in DOMAIN a : a[i] = b[j]

\* the three conditions of is_active, for an item, a request and the
\* resolved args of the item
Matches(item, req, resolved) ==
  /\ item.url = None
  /\ req.endpoint = item.endpoint
  /\ req.view_args.tag = "dict"
  /\ SamePairs(req.view_args.d, resolved)

\* C11: is_active is true if and only if the item has no literal url, the
\* endpoint of the current request is the item's endpoint and the view args
\* of the current request hold the same pairs as the item's resolved args;
\* it is false for every item when the current request has no endpoint.
C11_IsActiveIff ==
  read.prop = "is_active" =>
    /\ read.active <=> Matches(read.item, read.request, read.args)
    /\ read.request.endpoint = None => ~read.active

\* the item with callable args is active: the callable returns the pairs of
\* the view args, in another order
C11_Witness ==
  /\ read.prop = "is_active" /\ read.active
  /\ read.item = ItemF
  /\ read.request.view_args.d # read.args

\* C12: is_active is not cached: of two reads of is_active of the same item
\* in a row, the second is false when the first was true and the endpoint of
\* the request changed in between, and equals the first when the request is
\* the same again; the reads leave the collection as it was built.
C12_IsActiveIsLive ==
  /\ (/\ read.prop = "is_active" /\ prev.prop = "is_active"
      /\ read.item = prev.item) =>
       /\ (prev.active /\ read.request.endpoint # prev.request.endpoint)
            => ~read.active
       /\ read.request = prev.request => read.active = prev.active
  /\ read.prop = "is_active" =>
       /\ last.op = "init"
       /\ self = extend(Coll(<<>>, EmptyDict), last.values).c

\* an item that was active is inactive at the next read, the request having
\* gone to another endpoint
C12_Witness ==
  /\ read.prop = "is_active" /\ prev.prop = "is_active"
  /\ read.item = prev.item
  /\ prev.active /\ ~read.active
  /\ read.request.endpoint = "y" /\ prev.request.endpoint = "x"
  /\ items # <<>>

\* C13: the url of an item with a literal url is that literal, whatever its
\* endpoint and args, and url_for is not called (and the item is never
\* active); without a literal url the url is what url_for gives for the
\* endpoint and the resolved args, and an error of url_for is the error of
\* the read.
C13_UrlLiteralOrResolved ==
  /\ (read.prop = "url" /\ read.item.url # None) =>
       /\ read.err = "ok"
       /\ read.url = LiteralUrl(read.item.url)
       /\ read.resolves = 0
  /\ (read.prop = "url" /\ read.item.url = None) =>
       /\ read.resolves = 1
       /\ read.err = url_for(read.item.endpoint, read.args).err
       /\ read.url = url_for(read.item.endpoint, read.args).url
  /\ (read.prop = "is_active" /\ read.item.url # None) => ~read.active

\* the literal url of an item whose endpoint has no route, read after a
\* failed read of the url of an item without literal url
C13_Witness ==
  /\ read.prop = "url" /\ read.item = ItemW
  /\ read.url = LiteralUrl("/literal")
  /\ prev.prop = "url" /\ prev.err = "BuildError"

\* args mappings of lookups by identity
IdentArgs ==
  {<<>>, << <<1, 1>> >>, << <<1, 1>>, <<2, 2>> >>, << <<2, 2>>, <<1, 1>> >>,
   << <<1, 2>>, <<2, 2>> >>, << <<2, 2>>, <<1, 2>> >>}

\* C14: two items have equal identity if and only if their endpoints are
\* equal and their resolved args hold the same key-value pairs, in whatever
\* order; an item of a collection is found by a lookup with its pairs in any
\* order and by no lookup with other pairs.
C14_IdentityByContent ==
  /\ (read.prop = "ident" /\ prev.prop = "ident") =>
       (read.ident = prev.ident <=>
          /\ read.item.endpoint = prev.item.endpoint
          /\ SamePairs(read.args, prev.args))
  /\ \A p \in 1..Len(items), a \in IdentArgs :
       LET it == items[p]
           got == getitem(self, TupleIndex(it.endpoint, a))
       IN /\ SamePairs(a, args(it)) => got.err = "ok" /\ got.ret = it
          /\ ~SamePairs(a, args(it)) => got.ret # it

\* two items whose args hold the same pairs in different order, read one
\* after the other, with one of them in the collection
C14_Witness ==
  /\ read.prop = "ident" /\ prev.prop = "ident"
  /\ prev.item = ItemC /\ read.item = ItemD
  /\ read.ident = prev.ident
  /\ items = <<ItemE, ItemC>>

\* the read called the callable and its value is the one that follows from
\* the mapping the callable returned at the time
UsesSupplied ==
  /\ read.calls >= 1
  /\ read.args = read.supplied
  /\ read.prop = "url" =>
       read.url = url_for(read.item.endpoint, read.supplied).url
  /\ read.prop = "is_active" =>
       (read.active <=> Matches(read.item, read.request, read.supplied))
  /\ read.prop = "ident" =>
       read.ident = <<read.item.endpoint, freeze_dict(read.supplied)>>

\* C16: when args is a callable, every read of args, url, is_active and ident
\* calls it anew and uses the mapping it returns then; when args is absent
\* the resolved args are the empty mapping.
C16_EveryReadCallsSupplier ==
  /\ (read.prop # None /\ read.item.args.tag = "callable") => UsesSupplied
  /\ (read.prop = "args" /\ read.item.args.tag = "none") => read.args = <<>>

\* C16 as amended: when args is a callable, every read of args, is_active and
\* ident, and every read of url of an item without literal url, calls it
\* anew and uses the mapping it returns then; a read of url of an item with a
\* literal url does not call it; when args is absent the resolved args are
\* the empty mapping.
C16_ReadsCallSupplierButLiteralUrl ==
  /\ (/\ read.prop # None /\ read.item.args.tag = "callable"
      /\ ~(read.prop = "url" /\ read.item.url # None)) => UsesSupplied
  /\ (/\ read.prop = "url" /\ read.item.args.tag = "callable"
      /\ read.item.url # None) =>
       read.calls = 0 /\ read.url = LiteralUrl(read.item.url)
  /\ (read.prop = "args" /\ read.item.args.tag = "none") => read.args = <<>>

\* two reads of the args of the same item in a row, the callable returning
\* another mapping at the second
C16_Witness ==
  /\ read.prop = "args" /\ prev.prop = "args"
  /\ read.item = ItemF /\ prev.item = ItemF
  /\ ~SamePairs(read.args, prev.args)
  /\ read.args = supplied

====
